---- MODULE Spec2Model ----
(***************************************************************************)
(* Model of scripts/TP1/denoise_image.py: one run of main().               *)
(*                                                                         *)
(* main() is a straight-line program: load, reorient, dispatch on the      *)
(* method id, report, residual, two displays, two writes.  The state is    *)
(* main's local variables, the position in main, and a record of every     *)
(* call main made to its collaborators (tools.io, tools.denoise,           *)
(* tools.display) and of what it printed.                                  *)
(*                                                                         *)
(* A volume is modelled as a one-dimensional array of integer voxels; its  *)
(* shape is its length.  Command-line values that are only passed along    *)
(* (sigma, h, kappa, ...) are carried as the text Python prints for them.  *)
(* The wall-clock time of line 131/154 is not modelled.                    *)
(***************************************************************************)
EXTENDS Integers, Sequences, FiniteSets, TLC

\* ------------------------------------------------------------------ bounds
MaxLen == 2
MaxVal == 1

Vals == 0..MaxVal
ArraysOfLen(n) == [1..n -> Vals]
Volumes == UNION {ArraysOfLen(n) : n \in 1..MaxLen}

\* ------------------------------------------------------ command line (73-119)
\* The values argparse hands to main.  denoise_method and axe are integers;
\* the others are passed along untouched and carried as text.
MethodIds == 0..6
Axes == {0, 2}

_build_arg_parser ==
    [in_image : {"t1.nii"},
     denoise_method : MethodIds,
     output_dir : {".", "out"},
     axe : Axes,
     sigma : {"1"},
     patch_size : {"5", "3"},
     patch_distance : {"5"},
     h : {"30"},
     sigma_color : {"None", "2.0"},
     sigma_spatial : {"1"},
     n : {"10"},
     kappa : {"50"},
     gamma : {"0.1"}]

\* ------------------------------------------------------- the file on disk
\* What in_image names: a readable volumetric image (voxels in the file's
\* native order, affine, voxel sizes, whether the native order is already
\* the canonical one) or something the loader does not accept.
\* The voxel sizes a header reports are those of its affine.
Headers == {[affine |-> <<1, 1, 1, 1>>, zooms |-> <<1, 1, 1>>],
            [affine |-> <<2, 2, 3, 1>>, zooms |-> <<2, 2, 3>>]}

NoImage == [valid |-> FALSE, voxels |-> <<>>, affine |-> <<>>, zooms |-> <<>>,
            canonical |-> TRUE]

ValidImages ==
    {[valid |-> TRUE, voxels |-> v, affine |-> hd.affine, zooms |-> hd.zooms,
      canonical |-> c] : v \in Volumes, hd \in Headers, c \in BOOLEAN}

Files == ValidImages \cup {NoImage}

\* ------------------------------------------------- collaborators (tools.*)
\* tools.io.check_valid_image: the image object on success.
check_valid_image(file) == file

Reverse(s) == [i \in 1..Len(s) |-> s[Len(s) + 1 - i]]

\* tools.io.reorient_data_rsa: the voxel array in the canonical axis order
\* (a flip when the file's native order is the opposite one).
reorient_data_rsa(img) == IF img.canonical THEN img.voxels ELSE Reverse(img.voxels)

\* tools.denoise.*: the arrays a filter may return for `data`.  The numeric
\* definition of each filter is the library's; the contract is an array of
\* the shape of its input.  With the contract not honoured a filter may
\* return an array of any shape, longer than any input included.
DenoisedArrays(data, honoured) ==
    IF honoured THEN ArraysOfLen(Len(data))
    ELSE UNION {ArraysOfLen(n) : n \in 1..(MaxLen + 1)}

\* image.affine (line 125) and image.header.get_zooms() (line 126)
ImageAffine(img) == img.affine

\* unit voxel sizes whatever the header says
get_zooms_unit(img) == <<1, 1, 1>>

get_zooms(img) == img.zooms

\* ----------------------------------------------------- dispatch (133-152)
Supported == {0, 1, 3, 4, 5}

\* The filter called for method id m.
FilterOf(m) ==
    CASE m = 0 -> "denoise_non_local_means"
      [] m = 1 -> "denoise_gaussian"
      [] m = 3 -> "denoise_median"
      [] m = 4 -> "denoise_bilateral"
      [] m = 5 -> "denoise_anisotropic_diffusion"
      [] OTHER -> ""

\* The arguments handed to the filter after `data`.
FilterArgs(m, a) ==
    CASE m = 0 -> <<a.h, a.patch_size, a.patch_distance>>
      [] m = 1 -> <<a.sigma>>
      [] m = 3 -> <<a.patch_size>>
      [] m = 4 -> <<a.patch_size, a.sigma_color, a.sigma_spatial>>
      [] m = 5 -> <<a.n, a.kappa, a.gamma>>
      [] OTHER -> <<>>

\* method_name; '' (line 128) when no branch is taken.
MethodName(m) ==
    CASE m = 0 -> "nl_means"
      [] m = 1 -> "gaussian"
      [] m = 3 -> "median"
      [] m = 4 -> "bilateral"
      [] m = 5 -> "anisotropic_diffusion"
      [] OTHER -> ""

\* the parameter list with two entries exchanged
ParametersSwapped(m, a) ==
    CASE m = 0 -> <<a.patch_size, a.h, a.patch_distance>>
      [] m = 1 -> <<a.sigma>>
      [] m = 3 -> <<a.patch_size>>
      [] m = 4 -> <<a.patch_size, a.sigma_spatial, a.sigma_color>>
      [] m = 5 -> <<a.n, a.gamma, a.kappa>>
      [] OTHER -> <<>>

\* parameters; [] (line 129) when no branch is taken.
Parameters(m, a) ==
    CASE m = 0 -> <<a.h, a.patch_size, a.patch_distance>>
      [] m = 1 -> <<a.sigma>>
      [] m = 3 -> <<a.patch_size>>
      [] m = 4 -> <<a.patch_size, a.sigma_color, a.sigma_spatial>>
      [] m = 5 -> <<a.n, a.kappa, a.gamma>>
      [] OTHER -> <<>>

\* ------------------------------------------------------ residual (158)
\* numpy's `a - b` on one-dimensional arrays: equal lengths subtract
\* elementwise, a length-1 operand is broadcast, anything else raises
\* ValueError.
Broadcastable(a, b) == Len(a) = Len(b) \/ Len(a) = 1 \/ Len(b) = 1

Max(x, y) == IF x >= y THEN x ELSE y

At(a, i) == IF Len(a) = 1 THEN a[1] ELSE a[i]

\* the operands exchanged
SubtractReversed(a, b) == [i \in 1..Max(Len(a), Len(b)) |-> At(b, i) - At(a, i)]

Subtract(a, b) == [i \in 1..Max(Len(a), Len(b)) |-> At(a, i) - At(b, i)]

\* ------------------------------------------------------------------ state
VARIABLES
    pc,             \* position in main
    args,           \* the parsed command line (lines 105-119)
    file,           \* what in_image names on disk
    contract,       \* whether the filters honour their shape contract
    image,          \* line 121
    data,           \* line 124
    affine,         \* line 125
    voxel_sizes,    \* line 126
    method_name,    \* lines 128, 135..151
    parameters,     \* lines 129, 136..152
    denoised_image, \* lines 134..150; bound = FALSE while never assigned
    residual_image, \* line 158
    filterCalls,    \* calls made to tools.denoise
    console,        \* method names printed at line 155
    displays,       \* calls made to tools.display.display_image
    displayFailed,  \* whether a display_image call has failed
    writes,         \* calls made to tools.io.save_nifti_image
    log,            \* the steps taken, in order
    outcome,        \* "running", "returned", or the exception that ended main
    exitCode        \* the process's exit status; -1 while running

vars == <<pc, args, file, contract, image, data, affine, voxel_sizes,
          method_name, parameters, denoised_image, residual_image,
          filterCalls, console, displays, displayFailed, writes, log, outcome,
          exitCode>>

Unbound == [bound |-> FALSE, arr |-> <<>>]
Bound(a) == [bound |-> TRUE, arr |-> a]

InitWith(contracts) ==
    /\ pc = "load"
    /\ args \in _build_arg_parser
    /\ file \in Files
    /\ contract \in contracts
    /\ image = NoImage
    /\ data = <<>>
    /\ affine = <<>>
    /\ voxel_sizes = <<>>
    /\ method_name = ""
    /\ parameters = <<>>
    /\ denoised_image = Unbound
    /\ residual_image = Unbound
    /\ filterCalls = <<>>
    /\ console = <<>>
    /\ displays = <<>>
    /\ displayFailed = FALSE
    /\ writes = <<>>
    /\ log = <<>>
    /\ outcome = "running"
    /\ exitCode = -1

Init == InitWith({TRUE})

InitAnyFilter == InitWith(BOOLEAN)

\* main ends by an uncaught exception: traceback, exit status 1.
Raise(exc) ==
    /\ pc' = "done"
    /\ outcome' = exc
    /\ exitCode' = 1

\* main returns: exit status 0.
Return ==
    /\ pc' = "done"
    /\ outcome' = "returned"
    /\ exitCode' = 0

Running == UNCHANGED <<outcome, exitCode>>

\* ---------------------------------------------------------------- actions
\* line 121, the image is readable
LoadImage ==
    /\ pc = "load"
    /\ file.valid
    /\ image' = check_valid_image(file)
    /\ log' = Append(log, "load")
    /\ pc' = "guard"
    /\ Running
    /\ UNCHANGED <<args, file, contract, data, affine, voxel_sizes, method_name,
                   parameters, denoised_image, residual_image, filterCalls,
                   console, displays, displayFailed, writes>>

\* line 121, the loader fails by raising
LoadRaises ==
    /\ pc = "load"
    /\ ~file.valid
    /\ log' = Append(log, "load")
    /\ Raise("InvalidImageError")
    /\ UNCHANGED <<args, file, contract, image, data, affine, voxel_sizes,
                   method_name, parameters, denoised_image, residual_image,
                   filterCalls, console, displays, displayFailed, writes>>

\* line 121, the loader fails by returning a false value (the case line 123
\* tests for)
LoadReturnsNone ==
    /\ pc = "load"
    /\ ~file.valid
    /\ image' = NoImage
    /\ log' = Append(log, "load")
    /\ pc' = "guard"
    /\ Running
    /\ UNCHANGED <<args, file, contract, data, affine, voxel_sizes, method_name,
                   parameters, denoised_image, residual_image, filterCalls,
                   console, displays, displayFailed, writes>>

\* line 123, `if image:` false: main falls off its end
SkipBody ==
    /\ pc = "guard"
    /\ ~image.valid
    /\ Return
    /\ UNCHANGED <<args, file, contract, image, data, affine, voxel_sizes,
                   method_name, parameters, denoised_image, residual_image,
                   filterCalls, console, displays, displayFailed, writes, log>>

\* lines 123-131
Reorient ==
    /\ pc = "guard"
    /\ image.valid
    /\ data' = reorient_data_rsa(image)
    /\ affine' = ImageAffine(image)
    /\ voxel_sizes' = get_zooms(image)
    /\ method_name' = ""
    /\ parameters' = <<>>
    /\ log' = Append(log, "reorient")
    /\ pc' = "dispatch"
    /\ Running
    /\ UNCHANGED <<args, file, contract, image, denoised_image, residual_image,
                   filterCalls, console, displays, displayFailed, writes>>

\* lines 133-152, a branch is taken
Dispatch ==
    /\ pc = "dispatch"
    /\ args.denoise_method \in Supported
    /\ \E out \in DenoisedArrays(data, contract) :
          denoised_image' = Bound(out)
    /\ filterCalls' = Append(filterCalls,
                             [filter |-> FilterOf(args.denoise_method),
                              data |-> data,
                              params |-> FilterArgs(args.denoise_method, args)])
    /\ method_name' = MethodName(args.denoise_method)
    /\ parameters' = Parameters(args.denoise_method, args)
    /\ log' = Append(log, "denoise")
    /\ pc' = "report"
    /\ Running
    /\ UNCHANGED <<args, file, contract, image, data, affine, voxel_sizes,
                   residual_image, console, displays, displayFailed, writes>>

\* lines 133-152, no branch is taken: nothing is assigned
DispatchNoBranch ==
    /\ pc = "dispatch"
    /\ args.denoise_method \notin Supported
    /\ log' = Append(log, "denoise")
    /\ pc' = "report"
    /\ Running
    /\ UNCHANGED <<args, file, contract, image, data, affine, voxel_sizes,
                   method_name, parameters, denoised_image, residual_image,
                   filterCalls, console, displays, displayFailed, writes>>

\* lines 154-155
Report ==
    /\ pc = "report"
    /\ console' = Append(console, method_name)
    /\ pc' = "residual"
    /\ Running
    /\ UNCHANGED <<args, file, contract, image, data, affine, voxel_sizes,
                   method_name, parameters, denoised_image, residual_image,
                   filterCalls, displays, displayFailed, writes, log>>

\* line 158
Residual ==
    /\ pc = "residual"
    /\ log' = Append(log, "residual")
    /\ IF ~denoised_image.bound
         THEN Raise("UnboundLocalError") /\ UNCHANGED residual_image
         ELSE IF ~Broadcastable(data, denoised_image.arr)
                THEN Raise("ValueError") /\ UNCHANGED residual_image
                ELSE /\ residual_image' = Bound(Subtract(data, denoised_image.arr))
                     /\ pc' = "display_denoised"
                     /\ Running
    /\ UNCHANGED <<args, file, contract, image, data, affine, voxel_sizes,
                   method_name, parameters, denoised_image, filterCalls,
                   console, displays, displayFailed, writes>>

DisplayRequest(arr) == [array |-> arr, voxel_sizes |-> voxel_sizes, axe |-> args.axe]

\* A display call: it returns, or it raises and nothing in main catches it.
Display(arr, next) ==
    /\ displays' = Append(displays, DisplayRequest(arr))
    /\ log' = Append(log, "display")
    /\ \/ pc' = next /\ Running /\ UNCHANGED displayFailed
       \/ Raise("DisplayError") /\ displayFailed' = TRUE
    /\ UNCHANGED <<args, file, contract, image, data, affine, voxel_sizes,
                   method_name, parameters, denoised_image, residual_image,
                   filterCalls, console, writes>>

\* line 161 followed directly by the writes
DisplayDenoisedThenSave ==
    /\ pc = "display_denoised"
    /\ Display(denoised_image.arr, "save_denoised")

\* line 161
DisplayDenoised ==
    /\ pc = "display_denoised"
    /\ Display(denoised_image.arr, "display_residual")

\* line 162
DisplayResidual ==
    /\ pc = "display_residual"
    /\ Display(residual_image.arr, "save_denoised")

SaveRequest(arr, isResidual) ==
    [array |-> arr, affine |-> affine, in_image |-> args.in_image,
     method_name |-> method_name, parameters |-> parameters,
     output_dir |-> args.output_dir, residual |-> isResidual]

\* line 166: the file is written, or the writer raises
SaveDenoised ==
    /\ pc = "save_denoised"
    /\ writes' = Append(writes, SaveRequest(denoised_image.arr, FALSE))
    /\ log' = Append(log, "write")
    /\ \/ pc' = "save_residual" /\ Running
       \/ Raise("IOError")
    /\ UNCHANGED <<args, file, contract, image, data, affine, voxel_sizes,
                   method_name, parameters, denoised_image, residual_image,
                   filterCalls, console, displays, displayFailed>>

\* line 167, then main returns
SaveResidual ==
    /\ pc = "save_residual"
    /\ writes' = Append(writes, SaveRequest(residual_image.arr, TRUE))
    /\ log' = Append(log, "write")
    /\ \/ Return
       \/ Raise("IOError")
    /\ UNCHANGED <<args, file, contract, image, data, affine, voxel_sizes,
                   method_name, parameters, denoised_image, residual_image,
                   filterCalls, console, displays, displayFailed>>

Next ==
    \/ LoadImage
    \/ LoadRaises
    \/ LoadReturnsNone
    \/ SkipBody
    \/ Reorient
    \/ Dispatch
    \/ DispatchNoBranch
    \/ Report
    \/ Residual
    \/ DisplayDenoised
    \/ DisplayResidual
    \/ SaveDenoised
    \/ SaveResidual

Spec == Init /\ [][Next]_vars

\* The same program with filters that need not honour their shape contract.
SpecAnyFilter == InitAnyFilter /\ [][Next]_vars

\* ------------------------------------------------------------------ claims
Done == pc = "done"

\* The run got an image from the loader.
Loaded == image.valid

\* C1: a run whose image loads and whose denoise_method is outside
\* {0,1,3,4,5} ends in UnsupportedMethodError before processing: it never
\* goes past the dispatch, invokes no filter, prints and displays nothing and
\* writes no file.
C1_UnsupportedMethodAborts ==
    (Loaded /\ args.denoise_method \notin Supported) =>
        /\ pc \in {"guard", "dispatch", "done"}
        /\ Done => outcome = "UnsupportedMethodError"
        /\ filterCalls = <<>>
        /\ console = <<>>
        /\ displays = <<>>
        /\ writes = <<>>

\* C2: a run with denoise_method = 2 applies anisotropic diffusion: that
\* filter is the one filter invoked, on the reoriented data with n, kappa
\* and gamma, and its result is what is displayed and written.
C2_Method2IsAnisotropic ==
    (Done /\ Loaded /\ args.denoise_method = 2) =>
        /\ filterCalls = <<[filter |-> "denoise_anisotropic_diffusion",
                            data |-> reorient_data_rsa(image),
                            params |-> <<args.n, args.kappa, args.gamma>>]>>
        /\ denoised_image.bound
        /\ displays # <<>>
        /\ displays[1].array = denoised_image.arr
        /\ (outcome = "returned" => writes[1].array = denoised_image.arr)

\* C3: when the loader yields no valid image the run ends in a failure
\* outcome (non-zero exit status) and no later step has happened.
C3_LoadFailureIsFatal ==
    (Done /\ ~file.valid) =>
        /\ exitCode # 0
        /\ log = <<"load">>
        /\ data = <<>>
        /\ filterCalls = <<>>
        /\ displays = <<>>
        /\ writes = <<>>

\* C4: a failed display call does not abort the run: with a valid image and
\* a supported method id both files are still written and the run ends
\* successfully.
C4_DisplayFailureNotFatal ==
    (Done /\ Loaded /\ args.denoise_method \in Supported /\ displayFailed) =>
        /\ Len(writes) = 2
        /\ exitCode = 0

\* C5: the steps occur strictly in the order load, reorient, denoise,
\* residual, display, display, write, write; every call to a collaborator is
\* made in its own step, so the filter is called on the reoriented data, both
\* displays precede both writes, and a write failure comes after denoising
\* and both displays.
StepOrder == <<"load", "reorient", "denoise", "residual", "display", "display",
               "write", "write">>

Count(seq, x) == Cardinality({i \in DOMAIN seq : seq[i] = x})

C5_StrictStepOrder ==
    /\ Len(log) <= Len(StepOrder)
    /\ log = SubSeq(StepOrder, 1, Len(log))
    /\ Len(filterCalls) <= Count(log, "denoise")
    /\ Len(displays) = Count(log, "display")
    /\ Len(writes) = Count(log, "write")
    /\ (filterCalls # <<>> => filterCalls[1].data = reorient_data_rsa(image))
    /\ (writes # <<>> => Len(displays) = 2 /\ ~displayFailed)
    /\ (outcome = "IOError" =>
            Len(filterCalls) = 1 /\ residual_image.bound /\ Len(displays) = 2)

C5_Witness ==
    /\ outcome = "IOError"
    /\ Len(writes) = 1
    /\ log = SubSeq(StepOrder, 1, 7)

\* C6: every run that completes successfully (exit status 0) has issued
\* exactly two write requests, the denoised volume and then the residual
\* volume, equal in everything but the array and the residual flag.
C6_TwoWritesOnSuccess ==
    (Done /\ exitCode = 0) =>
        /\ Len(writes) = 2
        /\ writes[1].array = denoised_image.arr
        /\ writes[1].residual = FALSE
        /\ writes[2].array = residual_image.arr
        /\ writes[2].residual = TRUE
        /\ [writes[1] EXCEPT !.array = <<>>, !.residual = TRUE]
             = [writes[2] EXCEPT !.array = <<>>, !.residual = TRUE]

\* C7: for every supported method and every input volume the residual is the
\* elementwise difference of the reoriented original and the denoised array:
\* denoised + residual = original at every voxel, the three arrays have the
\* same shape, and this residual is the array displayed and written as the
\* residual.
C7_ResidualExact ==
    residual_image.bound =>
        /\ args.denoise_method \in Supported
        /\ data = reorient_data_rsa(image)
        /\ Len(denoised_image.arr) = Len(data)
        /\ Len(residual_image.arr) = Len(data)
        /\ \A i \in 1..Len(data) :
              denoised_image.arr[i] + residual_image.arr[i] = data[i]
        /\ (Len(displays) = 2 => displays[2].array = residual_image.arr)
        /\ (Len(writes) = 2 => writes[2].array = residual_image.arr)

C7_Witness ==
    /\ outcome = "returned"
    /\ Len(writes) = 2
    /\ Len(data) = MaxLen
    /\ ~image.canonical
    /\ \E i \in 1..Len(data) : residual_image.arr[i] > 0
    /\ \E i \in 1..Len(data) : residual_image.arr[i] < 0

\* C8: the affine and the voxel sizes read from the loaded image are never
\* changed: every write request carries the input image's affine and every
\* display request the input image's voxel sizes, and the image object is
\* the loaded one throughout.
C8_MetadataPreserved ==
    /\ (Loaded => image = file)
    /\ \A i \in DOMAIN writes : writes[i].affine = file.affine
    /\ \A i \in DOMAIN displays : displays[i].voxel_sizes = file.zooms
    /\ (pc \notin {"load", "guard"} /\ Loaded =>
            affine = file.affine /\ voxel_sizes = file.zooms)

C8_Witness ==
    /\ outcome = "returned"
    /\ Len(writes) = 2
    /\ Len(displays) = 2
    /\ file.zooms = <<2, 2, 3>>
    /\ \E i \in DOMAIN data : residual_image.arr[i] # 0

\* C9: if the filter returns an array whose shape differs from the original's
\* the residual step ends the run with a shape error: no residual is produced,
\* nothing is displayed and no file is written.
C9_ShapeMismatchIsFatal ==
    (Done /\ denoised_image.bound /\ Len(denoised_image.arr) # Len(data)) =>
        /\ outcome \in {"ShapeMismatchError", "ValueError"}
        /\ ~residual_image.bound
        /\ displays = <<>>
        /\ writes = <<>>

\* C10: for every denoise_method in {0,1,3,4,5} the dispatcher invokes exactly
\* one filter, the one of the table, with the table's parameters in the
\* table's order; method_name and parameters are the table's; the parameters
\* handed to the filter are the parameter list; the name printed is the name
\* passed to the writer.
C10_Table(m, a) ==
    IF m = 0 THEN [filter |-> "denoise_non_local_means", name |-> "nl_means",
                   params |-> <<a.h, a.patch_size, a.patch_distance>>]
    ELSE IF m = 1 THEN [filter |-> "denoise_gaussian", name |-> "gaussian",
                        params |-> <<a.sigma>>]
    ELSE IF m = 3 THEN [filter |-> "denoise_median", name |-> "median",
                        params |-> <<a.patch_size>>]
    ELSE IF m = 4 THEN [filter |-> "denoise_bilateral", name |-> "bilateral",
                        params |-> <<a.patch_size, a.sigma_color, a.sigma_spatial>>]
    ELSE [filter |-> "denoise_anisotropic_diffusion",
          name |-> "anisotropic_diffusion",
          params |-> <<a.n, a.kappa, a.gamma>>]

C10_DispatchTable ==
    (args.denoise_method \in Supported /\ Loaded
       /\ pc \notin {"load", "guard", "dispatch"}) =>
        LET row == C10_Table(args.denoise_method, args) IN
        /\ filterCalls = <<[filter |-> row.filter, data |-> data,
                            params |-> row.params]>>
        /\ method_name = row.name
        /\ parameters = row.params
        /\ filterCalls[1].params = parameters
        /\ \A i \in DOMAIN console : console[i] = row.name
        /\ \A i \in DOMAIN writes :
              /\ writes[i].method_name = row.name
              /\ writes[i].parameters = row.params
              /\ console = <<writes[i].method_name>>

C10_Witness ==
    /\ outcome = "returned"
    /\ args.denoise_method = 4
    /\ args.patch_size = "3"
    /\ args.sigma_color = "2.0"
    /\ console = <<"bilateral">>
    /\ Len(writes) = 2

====
